---- MODULE Spec2Model ----
(***************************************************************************)
(* Model of the Allegro A1335 angle-sensor driver (A1335.h / A1335.cpp).   *)
(*                                                                         *)
(* The driver is single-threaded and synchronous.  Every public method is  *)
(* one action: it runs against a transport (Wire) whose answers are the    *)
(* inputs of the action:                                                   *)
(*   st  the values returned by the endTransmission calls, in call order;  *)
(*   rx  the bytes delivered to the requestFrom calls, in call order (a    *)
(*       delivery shorter than the requested count is a short read).       *)
(* The transport calls the method issues are recorded in log.  Return is   *)
(* the control flow going back to the sketch, which drops the record of    *)
(* the finished call.                                                      *)
(*                                                                         *)
(* bytes_2 / bytes_4 are unions of an integer and a byte array.  They are  *)
(* modelled as the byte array in memory order of the little-endian targets *)
(* the library is built for (bytes[0] is the least-significant byte); TLA+ *)
(* sequences are 1-based, so C index n is position n + 1.                  *)
(***************************************************************************)
EXTENDS Integers, Naturals, Sequences, FiniteSets, TLC

\* ------------------------------------------------------------------ bounds
NumAddresses == 2      \* bus addresses the sketch may pass to start
MaxErr == 4            \* largest status an endTransmission call returns

\* --------------------------------------------------------------- constants
EWA   == 2
ERA   == 10
CTRL  == 30
ANG   == 32
STA   == 34
TSEN  == 40
FIELD == 42
ORATE_literal == 65488                  \* 0xFFD0
ipm   == <<128, 70>>
rpm   == <<192, 70>>
ang   == <<15, 255>>
mps   == <<0, 240>>
phase == <<0, 15>>
temp  == <<15, 255>>
field == <<15, 255>>
DefaultAddress == 12
NotFound == 4
ConfirmByte == 128                       \* 0x80 "Confirm write" / "Confirm read"

Byte == 0..255

\* --------------------------------------------------------- integer helpers
RECURSIVE BitAnd(_, _)
\* a & b on non-negative operands
BitAnd(a, b) ==
    IF a = 0 \/ b = 0 THEN 0
    ELSE (IF a % 2 = 1 /\ b % 2 = 1 THEN 1 ELSE 0) + 2 * BitAnd(a \div 2, b \div 2)

RECURSIVE BitXor(_, _)
\* a ^ b on non-negative operands
BitXor(a, b) ==
    IF a = 0 THEN b
    ELSE IF b = 0 THEN a
    ELSE ((a + b) % 2) + 2 * BitXor(a \div 2, b \div 2)

\* conversion of an integer to byte (uint8_t)
ToByte(v) == v % 256
\* conversion of an integer to int16_t / uint16_t / int32_t
ToInt16(v) == LET u == v % 65536 IN IF u >= 32768 THEN u - 65536 ELSE u
ToUint16(v) == v % 65536

\* x >> k on a signed integer (arithmetic shift, as gcc compiles it)
ShiftRight(x, k) == x \div (2 ^ k)
\* x ^ y on int16_t operands, result stored back into an int16_t
XorInt16(x, y) == ToInt16(BitXor(ToUint16(x), ToUint16(y)))

ORATE == ToInt16(ORATE_literal)          \* const int16_t ORATE = 0xFFD0

\* ---------------------------------------------------------------- bytes_2
bytes_2_default == <<0, 0>>
bytes_2_int(integ) == LET u == ToUint16(integ) IN <<u % 256, u \div 256>>
bytes_2_in(data) == ToInt16(data[1] + 256 * data[2])
\* lsBy / msBy return a reference: modelled as the position they refer to
bytes_2_lsBy(n) == (IF n > 1 THEN 1 ELSE IF n < 0 THEN 0 ELSE n) + 1
bytes_2_msBy(n) == (1 - (IF n > 1 THEN 1 ELSE IF n < 0 THEN 0 ELSE n)) + 1

\* ---------------------------------------------------------------- bytes_4
bytes_4_default == <<0, 0, 0, 0>>
\* integ is an int32_t: floor division and modulus give its two's-complement bytes
bytes_4_int(integ) ==
    <<integ % 256, (integ \div 256) % 256, (integ \div 65536) % 256, (integ \div 16777216) % 256>>
\* the top byte carries the sign of the int32_t
bytes_4_in(data) ==
    data[1] + 256 * data[2] + 65536 * data[3]
      + 16777216 * (IF data[4] >= 128 THEN data[4] - 256 ELSE data[4])
bytes_4_lsBy(n) == (IF n > 3 THEN 3 ELSE IF n < 0 THEN 0 ELSE n) + 1
bytes_4_mutant_msBy(n) == (IF n > 3 THEN 3 ELSE IF n < 0 THEN 0 ELSE n) + 1
bytes_4_msBy(n) == (3 - (IF n > 3 THEN 3 ELSE IF n < 0 THEN 0 ELSE n)) + 1

\* A sketch using the two classes: construct from integ, read in(), read the
\* bytes msBy(n), lsBy(n), msBy(0) and lsBy(N-1), then write b through msBy(n)
\* (resp. lsBy(n)) of a fresh copy and read in() again.
bytes_2_access(integ, n, b) ==
    LET data == bytes_2_int(integ)
    IN  [in     |-> bytes_2_in(data),
         ms     |-> data[bytes_2_msBy(n)],
         ls     |-> data[bytes_2_lsBy(n)],
         msZero |-> data[bytes_2_msBy(0)],
         lsLast |-> data[bytes_2_lsBy(1)],
         msIn   |-> bytes_2_in([data EXCEPT ![bytes_2_msBy(n)] = b]),
         lsIn   |-> bytes_2_in([data EXCEPT ![bytes_2_lsBy(n)] = b])]

bytes_4_access(integ, n, b) ==
    LET data == bytes_4_int(integ)
    IN  [in     |-> bytes_4_in(data),
         ms     |-> data[bytes_4_msBy(n)],
         ls     |-> data[bytes_4_lsBy(n)],
         msZero |-> data[bytes_4_msBy(0)],
         lsLast |-> data[bytes_4_lsBy(3)],
         msIn   |-> bytes_4_in([data EXCEPT ![bytes_4_msBy(n)] = b]),
         lsIn   |-> bytes_4_in([data EXCEPT ![bytes_4_lsBy(n)] = b])]

\* ------------------------------------------------------- transport records
\* beginTransmission(addr); write(data[1]); ...; endTransmission() -> status
Tx(addr, data, status) == [kind |-> "tx", addr |-> addr, data |-> data, arg |-> status]
\* requestFrom(addr, count)
Req(addr, count) == [kind |-> "req", addr |-> addr, data |-> <<>>, arg |-> count]
\* delayMicroseconds(us)
DelayMicroseconds(us) == [kind |-> "delayMicroseconds", addr |-> 0, data |-> <<>>, arg |-> us]
\* delay(ms)
Delay(ms) == [kind |-> "delay", addr |-> 0, data |-> <<>>, arg |-> ms]

\* ------------------------------------------------- register access methods
\* Each returns [ret, log]; st is the endTransmission status of its
\* transaction and rx the bytes its requestFrom received.

normalRead_mutant_data(rx) ==
    [p \in 1..2 |->
        IF \E i \in 0..1 : bytes_2_msBy(i) = p /\ i + 1 <= Len(rx)
        THEN rx[(CHOOSE i \in 0..1 : bytes_2_msBy(i) = p) + 1]
        ELSE 255]

\* the loop "if (Wire.available()) data.msBy(i) = Wire.read()" of normalRead
normalRead_data(rx) ==
    [p \in 1..2 |->
        IF \E i \in 0..1 : bytes_2_msBy(i) = p /\ i + 1 <= Len(rx)
        THEN rx[(CHOOSE i \in 0..1 : bytes_2_msBy(i) = p) + 1]
        ELSE bytes_2_default[p]]

normalRead(addr, reg, st, rx) ==
    [ret |-> bytes_2_in(normalRead_data(rx)),
     log |-> <<Tx(addr, <<reg>>, st), Req(addr, 2)>>]

extendedRead_mutant_data(rx) ==
    [p \in 1..4 |->
        IF \E i \in 0..3 : bytes_4_msBy(i) = p /\ i + 1 <= Len(rx)
        THEN rx[(CHOOSE i \in 0..3 : bytes_4_msBy(i) = p) + 1]
        ELSE bytes_4_default[p]]

\* rstate = Wire.read() takes the first byte; the loop fills msBy(0..3)
extendedRead_data(rx) ==
    [p \in 1..4 |->
        IF \E i \in 0..3 : bytes_4_msBy(i) = p /\ i + 2 <= Len(rx)
        THEN rx[(CHOOSE i \in 0..3 : bytes_4_msBy(i) = p) + 2]
        ELSE bytes_4_default[p]]

extendedRead(addr, reg, st, rx) ==
    [ret |-> bytes_4_in(extendedRead_data(rx)),
     log |-> <<Tx(addr, <<ERA, ToByte(ShiftRight(reg, 8)), ToByte(reg), ConfirmByte>>, st),
               DelayMicroseconds(10),
               Req(addr, 5)>>]

normalWrite(addr, reg, data, st) ==
    LET data_bytes == bytes_2_int(data)
    IN [ret |-> st,
        log |-> <<Tx(addr, <<reg>> \o [i \in 1..2 |-> data_bytes[bytes_2_msBy(i - 1)]], st)>>]

\* Wire.read() returns -1 when nothing was received; the method returns byte
extendedWrite(addr, reg, data, st, rx) ==
    LET data_bytes == bytes_4_int(data)
    IN [ret |-> ToByte(IF Len(rx) > 0 THEN rx[1] ELSE -1),
        log |-> <<Tx(addr,
                     <<EWA, ToByte(ShiftRight(reg, 8)), ToByte(reg)>>
                        \o [i \in 1..4 |-> data_bytes[bytes_4_msBy(i - 1)]]
                        \o <<ConfirmByte>>,
                     st),
                  DelayMicroseconds(10),
                  Req(addr, 1)>>]

\* ------------------------------------------------------------------ start
\* if (error) { processorState = 4; return error; }
start_mutant_failed(self, error, probe) ==
    [self |-> self, ret |-> error, log |-> <<probe>>]
start_failed(self, error, probe) ==
    [self |-> [self EXCEPT !.processorState = NotFound], ret |-> error, log |-> <<probe>>]

\* the address the probe transaction goes to: the member, not the argument
start_probeAddress(self, address_) == self.address

\* the switch on processing_status; no default branch
start_mutant_processorState(old, state) ==
    LET processing_status == ShiftRight(BitAnd(state[bytes_2_msBy(1)], mps[2]), 4)
        processing_phase  == ShiftRight(BitAnd(state[bytes_2_msBy(1)], phase[2]), 0)
    IN  IF processing_status = 0 THEN 0
        ELSE IF processing_status = 1 THEN (IF processing_phase = 0 THEN 1 ELSE 2)
        ELSE IF processing_status = 14 THEN 3
        ELSE NotFound
start_mutant_phase(old, state) ==
    LET processing_status == ShiftRight(BitAnd(state[bytes_2_msBy(1)], mps[2]), 4)
        processing_phase  == ShiftRight(BitAnd(state[bytes_2_msBy(1)], phase[2]), 0)
    IN  IF processing_status = 0 THEN 0
        ELSE IF processing_status = 1 THEN (IF processing_phase = 1 THEN 2 ELSE 1)
        ELSE IF processing_status = 14 THEN 3
        ELSE old
start_mutant_unmapped(old, state) ==
    LET processing_status == ShiftRight(BitAnd(state[bytes_2_msBy(1)], mps[2]), 4)
        processing_phase  == ShiftRight(BitAnd(state[bytes_2_msBy(1)], phase[2]), 0)
    IN  IF processing_status = 0 THEN 0
        ELSE IF processing_status = 1 THEN (IF processing_phase = 0 THEN 1 ELSE 2)
        ELSE IF processing_status = 14 THEN 3
        ELSE processing_status
start_processorState(old, state) ==
    LET processing_status == ShiftRight(BitAnd(state[bytes_2_msBy(1)], mps[2]), 4)
        processing_phase  == ShiftRight(BitAnd(state[bytes_2_msBy(1)], phase[2]), 0)
    IN  IF processing_status = 0 THEN 0
        ELSE IF processing_status = 1 THEN (IF processing_phase = 0 THEN 1 ELSE 2)
        ELSE IF processing_status = 14 THEN 3
        ELSE old

\* outputRate = orate.msBy(3)
start_mutant_outputRate(orate) == orate[bytes_4_msBy(0)]
start_outputRate(orate) == orate[bytes_4_msBy(3)]

\* self is [address, processorState, outputRate]; result [self, ret, log]
start(self, address_, st, rx) ==
    LET probe == Tx(start_probeAddress(self, address_), <<>>, st[1])
        error == st[1]
    IN  IF error # 0
        THEN start_failed(self, error, probe)
        ELSE LET staRead == normalRead(address_, STA, st[2], rx[1])
                 oraRead == extendedRead(address_, ORATE, st[3], rx[2])
                 state   == bytes_2_int(staRead.ret)
                 orate   == bytes_4_int(oraRead.ret)
             IN [self |-> [address        |-> address_,
                           processorState |-> start_processorState(self.processorState, state),
                           outputRate     |-> start_outputRate(orate)],
                 ret  |-> error,
                 log  |-> <<probe>> \o staRead.log \o oraRead.log \o <<Delay(1)>>]

\* ---------------------------------------------------------- readAngleRaw
\* the XOR fold of readAngleRaw on the int16_t parityCheck, then "&= 1"
readAngleRaw_mutant_parityCheck(integer) ==
    LET p1 == XorInt16(integer, ShiftRight(integer, 8))
        p2 == XorInt16(p1, ShiftRight(p1, 4))
        p3 == XorInt16(p2, ShiftRight(p2, 2))
    IN  BitAnd(ToUint16(p3), 1)
readAngleRaw_parityCheck(integer) ==
    LET p1 == XorInt16(integer, ShiftRight(integer, 8))
        p2 == XorInt16(p1, ShiftRight(p1, 4))
        p3 == XorInt16(p2, ShiftRight(p2, 2))
        p4 == XorInt16(p3, ShiftRight(p3, 1))
    IN  BitAnd(ToUint16(p4), 1)

\* if (!parityCheck) { return 0; }
readAngleRaw_mutant_parityError(parityCheck) == parityCheck # 0
readAngleRaw_parityError(parityCheck) == parityCheck = 0

\* path is the return statement the call left through
readAngleRaw(self, st, rx) ==
    LET angRead == normalRead(self.address, ANG, st[1], rx[1])
        angReg  == bytes_2_int(angRead.ret)
        masked  == [angReg EXCEPT ![bytes_2_msBy(0)] = BitAnd(@, ang[1])]
        error   == readAngleRaw_parityError(readAngleRaw_parityCheck(bytes_2_in(angReg)))
    IN  [self |-> self,
         ret  |-> IF error THEN 0 ELSE ToUint16(bytes_2_in(masked)),
         log  |-> angRead.log,
         path |-> IF error THEN "parityError" ELSE "angle"]

\* double(readAngleRaw()) * 360.0 / 4096.0; ret is the angle in 1/4096 degree
readAngle(self, st, rx) ==
    LET raw == readAngleRaw(self, st, rx)
    IN  [self |-> raw.self, ret |-> raw.ret * 360, log |-> raw.log, path |-> raw.path]

\* ------------------------------------------- readTempRaw / readFieldRaw
\* tempReg.msBy(0) &= temp[0]
readTempRaw_mutant_mask(tempReg) == [tempReg EXCEPT ![bytes_2_msBy(1)] = BitAnd(@, temp[1])]
readTempRaw_mask(tempReg) == [tempReg EXCEPT ![bytes_2_msBy(0)] = BitAnd(@, temp[1])]

readTempRaw(self, st, rx) ==
    LET tempRead == normalRead(self.address, TSEN, st[1], rx[1])
        tempReg  == readTempRaw_mask(bytes_2_int(tempRead.ret))
    IN  [self |-> self, ret |-> ToUint16(bytes_2_in(tempReg)), log |-> tempRead.log]

\* double(readTempRaw()) / 8.0; ret is the temperature in 1/8 K
readTemp(self, st, rx) == readTempRaw(self, st, rx)

\* fieldReg.msBy(0) &= field[0]
readFieldRaw_mask(fieldReg) == [fieldReg EXCEPT ![bytes_2_msBy(0)] = BitAnd(@, field[1])]

readFieldRaw(self, st, rx) ==
    LET fieldRead == normalRead(self.address, FIELD, st[1], rx[1])
        fieldReg  == readFieldRaw_mask(bytes_2_int(fieldRead.ret))
    IN  [self |-> self, ret |-> ToUint16(bytes_2_in(fieldReg)), log |-> fieldRead.log]

\* double(readFieldRaw()) / 10000.0; ret is the field in 1/10000 T
readField(self, st, rx) == readFieldRaw(self, st, rx)

\* -------------------------------------------------------- readOutputRate
readOutputRate_mutant_byte(oRate) == oRate[bytes_4_msBy(0)]
readOutputRate_byte(oRate) == oRate[bytes_4_msBy(3)]

readOutputRate_mutant_caching(self, st, rx) ==
    LET oraRead == extendedRead(self.address, ORATE, st[1], rx[1])
        oRate   == bytes_4_int(oraRead.ret)
    IN  [self |-> [self EXCEPT !.outputRate = readOutputRate_byte(oRate)],
         ret |-> readOutputRate_byte(oRate), log |-> oraRead.log]
readOutputRate(self, st, rx) ==
    LET oraRead == extendedRead(self.address, ORATE, st[1], rx[1])
        oRate   == bytes_4_int(oraRead.ret)
    IN  [self |-> self, ret |-> readOutputRate_byte(oRate), log |-> oraRead.log]

\* --------------------------------------------------------- setOutputRate
\* the argument of the call converted to the parameter type byte
setOutputRate_parameter(arg) == ToByte(arg)

\* if (rate < 0) rate = 0; else if (rate >= 8) rate = 7;
setOutputRate_mutant_clamp(rate) == IF rate < 0 THEN 0 ELSE IF rate > 8 THEN 7 ELSE rate
setOutputRate_clamp(rate) == IF rate < 0 THEN 0 ELSE IF rate >= 8 THEN 7 ELSE rate

\* for (i < 2) mode.msBy(i) = cmd[i]
setOutputRate_mode(cmd) ==
    [p \in 1..2 |-> cmd[(CHOOSE i \in 0..1 : bytes_2_msBy(i) = p) + 1]]

\* bytes_4 oRate; oRate.msBy(3) = rate;
setOutputRate_mutant_oRate(rate) == [bytes_4_default EXCEPT ![bytes_4_msBy(0)] = rate]
setOutputRate_oRate(rate) == [bytes_4_default EXCEPT ![bytes_4_msBy(3)] = rate]

\* the order of the three writes and the waits after each
setOutputRate_mutant_sequence(idleWrite, rateWrite, runWrite) ==
    idleWrite \o <<DelayMicroseconds(150)>>
      \o runWrite \o <<DelayMicroseconds(50)>>
      \o rateWrite \o <<DelayMicroseconds(150)>>
setOutputRate_mutant_halt(idleWrite, rateWrite, runWrite) ==
    IF idleWrite[1].arg # 0
    THEN idleWrite
    ELSE idleWrite \o <<DelayMicroseconds(150)>>
           \o rateWrite \o <<DelayMicroseconds(50)>>
           \o runWrite \o <<DelayMicroseconds(150)>>
setOutputRate_sequence(idleWrite, rateWrite, runWrite) ==
    idleWrite \o <<DelayMicroseconds(150)>>
      \o rateWrite \o <<DelayMicroseconds(50)>>
      \o runWrite \o <<DelayMicroseconds(150)>>

\* The method is declared byte but has no return statement: the caller gets
\* whatever the return register holds (undef).
setOutputRate(self, rate_, st, rx, undef) ==
    LET rate      == setOutputRate_clamp(rate_)
        idle_mode == setOutputRate_mode(ipm)
        run_mode  == setOutputRate_mode(rpm)
        idleWrite == normalWrite(self.address, CTRL, bytes_2_in(idle_mode), st[1])
        rateWrite == extendedWrite(self.address, ORATE,
                                   bytes_4_in(setOutputRate_oRate(rate)), st[2], rx[1])
        runWrite  == normalWrite(self.address, CTRL, bytes_2_in(run_mode), st[3])
    IN  [self |-> self,
         ret  |-> undef,
         log  |-> setOutputRate_sequence(idleWrite.log, rateWrite.log, runWrite.log)]

\* ------------------------------------------------------------------ state
\* bench is the test bench of the round trip through the ORATE register:
\* orate is the register content a storing device holds (most-significant
\* byte first), rate the last argument passed to setOutputRate (NoRate
\* before the first call).
VARIABLES address, processorState, outputRate, pc, call, log, bench

vars == <<address, processorState, outputRate, pc, call, log, bench>>

NoRate == 256

Self == [address |-> address, processorState |-> processorState, outputRate |-> outputRate]

\* the record of "no call in progress"
NoCall == [name |-> "none", arg |-> 0, st |-> <<>>, rx |-> <<>>, ret |-> 0, pre |-> Self,
           path |-> "end"]

\* -------------------------------------------------------- transport inputs
Addresses == DefaultAddress..(DefaultAddress + NumAddresses - 1)
Statuses == 0..MaxErr
\* statuses of the transactions whose result the driver does not look at
IgnoredStatuses == {0, 2}

\* status register deliveries: nothing, the first byte only, or both bytes
StaFirst == {128, 17}
StaRx == {<<>>} \cup {<<a>> : a \in StaFirst} \cup {<<a, b>> : a \in StaFirst, b \in Byte}

\* output-rate register deliveries: status byte, then four data bytes
OrateFull == {<<1, 5, 6, 7, 3>>, <<1, 5, 6, 7, 9>>}
OrateRx == {SubSeq(s, 1, n) : s \in OrateFull, n \in 0..5}

\* the driver object after construction, no call made yet
InitDriver ==
    /\ address = DefaultAddress
    /\ processorState = NotFound
    /\ outputRate = 0
    /\ pc = "idle"
    /\ call = [name |-> "none", arg |-> 0, st |-> <<>>, rx |-> <<>>, ret |-> 0,
               pre |-> [address |-> DefaultAddress, processorState |-> NotFound, outputRate |-> 0],
               path |-> "end"]
    /\ log = <<>>

Init ==
    /\ InitDriver
    /\ bench = [orate |-> <<0, 0, 0, 0>>, rate |-> NoRate]

\* the call returns: the driver takes the state r.self, the sketch gets r.ret
FinishCall(name, arg, st, rx, r) ==
    /\ address' = r.self.address
    /\ processorState' = r.self.processorState
    /\ outputRate' = r.self.outputRate
    /\ log' = r.log
    /\ call' = [name |-> name, arg |-> arg, st |-> st, rx |-> rx, ret |-> r.ret, pre |-> Self,
                path |-> IF "path" \in DOMAIN r THEN r.path ELSE "end"]
    /\ pc' = "done"

Finish(name, arg, st, rx, r) ==
    /\ FinishCall(name, arg, st, rx, r)
    /\ UNCHANGED bench

Start ==
    /\ pc = "idle"
    /\ \E address_ \in Addresses :
          \/ \E error \in Statuses \ {0} :
                Finish("start", address_, <<error>>, <<>>,
                       start(Self, address_, <<error>>, <<>>))
          \/ \E s2 \in IgnoredStatuses, s3 \in IgnoredStatuses,
                staRx \in StaRx, oraRx \in OrateRx :
                Finish("start", address_, <<0, s2, s3>>, <<staRx, oraRx>>,
                       start(Self, address_, <<0, s2, s3>>, <<staRx, oraRx>>))

\* arguments a sketch passes to setOutputRate (an int, converted to byte)
RateArgs == -1..255
\* statuses of the three write transactions: each succeeds or fails
WriteStatuses == {<<s1, s2, s3>> : s1 \in IgnoredStatuses, s2 \in IgnoredStatuses,
                                   s3 \in IgnoredStatuses}
\* answer to the one-byte request that ends an extended write
WriteStatusRx == {<<>>, <<1>>}
\* values the caller may find in place of the missing return value
UndefinedReturn == {0, 255}

SetOutputRate ==
    /\ pc = "idle"
    /\ \E arg \in RateArgs, st \in WriteStatuses, wrx \in WriteStatusRx,
          undef \in UndefinedReturn :
          Finish("setOutputRate", arg, st, <<wrx>>,
                 setOutputRate(Self, setOutputRate_parameter(arg), st, <<wrx>>, undef))

ReadOutputRate ==
    /\ pc = "idle"
    /\ \E s1 \in IgnoredStatuses, oraRx \in OrateRx :
          Finish("readOutputRate", 0, <<s1>>, <<oraRx>>,
                 readOutputRate(Self, <<s1>>, <<oraRx>>))

\* angle register deliveries
AngSecond == {0, 1, 128, 255}
AngRx == {<<>>} \cup {<<a>> : a \in Byte} \cup {<<a, b>> : a \in Byte, b \in AngSecond}
AngRxAll == {<<>>} \cup {<<a>> : a \in Byte} \cup {<<a, b>> : a \in Byte, b \in Byte}

ReadAngleRawFrom(deliveries) ==
    /\ pc = "idle"
    /\ \E s1 \in IgnoredStatuses, angRx \in deliveries :
          Finish("readAngleRaw", 0, <<s1>>, <<angRx>>,
                 readAngleRaw(Self, <<s1>>, <<angRx>>))

ReadAngleRaw == ReadAngleRawFrom(AngRx)

\* the same method with every 16-bit register value
ReadAngleRawAll == ReadAngleRawFrom(AngRxAll)

\* a method that leaves the driver as it is
Method(self, r) == [self |-> self, ret |-> r.ret, log |-> r.log]

\* two-byte register deliveries for the methods read with sampled values
RegFirst == {0, 16, 47, 160, 255}
RegSecond == {0, 3, 255}
RegRx == {<<>>} \cup {<<a>> : a \in RegFirst} \cup {<<a, b>> : a \in RegFirst, b \in RegSecond}

ReadAngle ==
    /\ pc = "idle"
    /\ \E s1 \in IgnoredStatuses, angRx \in RegRx :
          Finish("readAngle", 0, <<s1>>, <<angRx>>, readAngle(Self, <<s1>>, <<angRx>>))

ReadTempRawFrom(deliveries) ==
    /\ pc = "idle"
    /\ \E s1 \in IgnoredStatuses, tempRx \in deliveries :
          Finish("readTempRaw", 0, <<s1>>, <<tempRx>>, readTempRaw(Self, <<s1>>, <<tempRx>>))

ReadTempRaw == ReadTempRawFrom(RegRx)
ReadTempRawAll == ReadTempRawFrom(AngRxAll)

ReadTemp ==
    /\ pc = "idle"
    /\ \E s1 \in IgnoredStatuses, tempRx \in RegRx :
          Finish("readTemp", 0, <<s1>>, <<tempRx>>, readTemp(Self, <<s1>>, <<tempRx>>))

ReadFieldRawFrom(deliveries) ==
    /\ pc = "idle"
    /\ \E s1 \in IgnoredStatuses, fieldRx \in deliveries :
          Finish("readFieldRaw", 0, <<s1>>, <<fieldRx>>, readFieldRaw(Self, <<s1>>, <<fieldRx>>))

ReadFieldRaw == ReadFieldRawFrom(RegRx)
ReadFieldRawAll == ReadFieldRawFrom(AngRxAll)

ReadField ==
    /\ pc = "idle"
    /\ \E s1 \in IgnoredStatuses, fieldRx \in RegRx :
          Finish("readField", 0, <<s1>>, <<fieldRx>>, readField(Self, <<s1>>, <<fieldRx>>))

\* arguments a sketch passes to the public register access methods
NormalRegs == {ANG, STA, 300}
ExtendedRegs == {ORATE_literal, 4660, -32768}
WriteData16 == {0, 4660, -32698}
WriteData32 == {0, 7, 16909060, -1}
\* five-byte deliveries to the public extendedRead
ExtendedFull == {<<1, 5, 6, 7, 3>>, <<0, 129, 2, 3, 4>>, <<1, 255, 255, 255, 255>>}
ExtendedRx == {SubSeq(d, 1, n) : d \in ExtendedFull, n \in 0..5}

\* normalRead(byte reg)
NormalRead ==
    /\ pc = "idle"
    /\ \E reg \in NormalRegs, s1 \in IgnoredStatuses, regRx \in RegRx :
          Finish("normalRead", reg, <<s1>>, <<regRx>>,
                 Method(Self, normalRead(address, ToByte(reg), s1, regRx)))

\* normalWrite(byte reg, int16_t data)
NormalWrite ==
    /\ pc = "idle"
    /\ \E reg \in NormalRegs, data \in WriteData16, s1 \in Statuses :
          Finish("normalWrite", <<reg, data>>, <<s1>>, <<>>,
                 Method(Self, normalWrite(address, ToByte(reg), ToInt16(data), s1)))

\* extendedRead(int16_t reg)
ExtendedRead ==
    /\ pc = "idle"
    /\ \E reg \in ExtendedRegs, s1 \in IgnoredStatuses, extRx \in ExtendedRx :
          Finish("extendedRead", reg, <<s1>>, <<extRx>>,
                 Method(Self, extendedRead(address, ToInt16(reg), s1, extRx)))

\* extendedWrite(int16_t reg, int32_t data)
ExtendedWrite ==
    /\ pc = "idle"
    /\ \E reg \in ExtendedRegs, data \in WriteData32, s1 \in IgnoredStatuses,
          wrx \in WriteStatusRx :
          Finish("extendedWrite", <<reg, data>>, <<s1>>, <<wrx>>,
                 Method(Self, extendedWrite(address, ToInt16(reg), data, s1, wrx)))

\* values a sketch puts into a bytes_2 / bytes_4, indices and bytes it uses
Int16Values == {-32768, -32698, -1, 0, 1, 255, 256, 4660, 32767}
Int32Values == {-2147483647, -2130574588, -1, 0, 7, 65536, 16909060, 2147483647}
Indices == 0..255
WrittenBytes == {0, 165}

Bytes2Access ==
    /\ pc = "idle"
    /\ \E integ \in Int16Values, n \in Indices, b \in WrittenBytes :
          Finish("bytes_2", <<integ, n, b>>, <<>>, <<>>,
                 [self |-> Self, ret |-> bytes_2_access(integ, n, b), log |-> <<>>])

Bytes4Access ==
    /\ pc = "idle"
    /\ \E integ \in Int32Values, n \in Indices, b \in WrittenBytes :
          Finish("bytes_4", <<integ, n, b>>, <<>>, <<>>,
                 [self |-> Self, ret |-> bytes_4_access(integ, n, b), log |-> <<>>])

\* ---- a device that stores the ORATE register ----
\* the register content after the transactions of log l: the four data
\* bytes of an extended write to ORATE replace the content old
DeviceStore(l, old) ==
    LET writes == {i \in 1..Len(l) :
                      /\ l[i].kind = "tx"
                      /\ Len(l[i].data) = 8
                      /\ SubSeq(l[i].data, 1, 3) = <<EWA, 255, 208>>}
    IN  IF writes = {} THEN old ELSE SubSeq(l[CHOOSE i \in writes : TRUE].data, 4, 7)

\* the answer to an extended read of ORATE: a status byte, then the content
DeviceAnswer == <<1>> \o bench.orate

\* status register content of the storing device
DeviceSta == <<128, 17>>

\* what the ORATE register may hold before the first write
DeviceInits == {<<0, 0, 0, 0>>, <<9, 2, 3, 4>>}

InitDevice ==
    /\ InitDriver
    /\ bench \in {[orate |-> o, rate |-> NoRate] : o \in DeviceInits}

DevSetOutputRate ==
    /\ pc = "idle"
    /\ \E arg \in RateArgs :
          LET r == setOutputRate(Self, setOutputRate_parameter(arg), <<0, 0, 0>>, <<<<1>>>>, 0)
          IN  /\ FinishCall("setOutputRate", arg, <<0, 0, 0>>, <<<<1>>>>, r)
              /\ bench' = [orate |-> DeviceStore(r.log, bench.orate), rate |-> arg]

DevReadOutputRate ==
    /\ pc = "idle"
    /\ Finish("readOutputRate", 0, <<0>>, <<DeviceAnswer>>,
              readOutputRate(Self, <<0>>, <<DeviceAnswer>>))

DevStart ==
    /\ pc = "idle"
    /\ Finish("start", address, <<0, 0, 0>>, <<DeviceSta, DeviceAnswer>>,
              start(Self, address, <<0, 0, 0>>, <<DeviceSta, DeviceAnswer>>))

Return ==
    /\ pc = "done"
    /\ pc' = "idle"
    /\ call' = NoCall
    /\ log' = <<>>
    /\ UNCHANGED <<address, processorState, outputRate, bench>>

Next ==
    \/ Start \/ SetOutputRate \/ ReadOutputRate
    \/ ReadAngleRaw \/ ReadAngle
    \/ ReadTempRaw \/ ReadTemp
    \/ ReadFieldRaw \/ ReadField
    \/ NormalRead \/ NormalWrite
    \/ ExtendedRead \/ ExtendedWrite
    \/ Return

Spec == Init /\ [][Next]_vars

\* readAngleRaw alone, over every value of the angle register
NextAngle == ReadAngleRawAll \/ Return

SpecAngle == Init /\ [][NextAngle]_vars

\* readTempRaw and readFieldRaw, over every value of their registers
NextRaw == ReadTempRawAll \/ ReadFieldRawAll \/ Return

SpecRaw == Init /\ [][NextRaw]_vars

\* the classes bytes_2 and bytes_4 alone
NextBytes == Bytes2Access \/ Bytes4Access \/ Return

SpecBytes == Init /\ [][NextBytes]_vars

\* the driver against the device that stores the ORATE register
NextDevice == DevSetOutputRate \/ DevReadOutputRate \/ DevStart \/ Return

SpecDevice == InitDevice /\ [][NextDevice]_vars

TypeOK ==
    /\ address \in Addresses
    /\ processorState \in 0..4
    /\ outputRate \in Byte
    /\ pc \in {"idle", "done"}

\* ================================================================ claims
\* the call that has just finished
Done(name) == pc = "done" /\ call.name = name

RECURSIVE PopCount(_)
\* number of set bits of a non-negative integer
PopCount(w) == IF w = 0 THEN 0 ELSE (w % 2) + PopCount(w \div 2)

\* indices of the bus operations (transactions and requests) of a log
BusOps(l) == {i \in 1..Len(l) : l[i].kind \in {"tx", "req"}}

\* C1: when the probe transaction of start ends with a nonzero status e, the
\* cached processor state becomes NotFound (4), start returns e, and the
\* probe is the only entry of the transport log of that call: no register
\* read, no extended read, no settle delay.
C1_ProbeFailure ==
    (Done("start") /\ call.st[1] # 0) =>
        /\ processorState = 4
        /\ call.ret = call.st[1]
        /\ Len(log) = 1
        /\ log[1].kind = "tx"
        /\ log[1].data = <<>>

C1_Witness ==
    /\ Done("start")
    /\ call.st[1] = 2
    /\ call.pre.processorState = 2
    /\ processorState = 4
    /\ call.ret = 2

\* C2 (as claimed): the probe of start(a) is addressed to a, whatever the
\* stored address is; after a successful start every later bus operation of
\* the call is addressed to a and getAddress() returns a.
C2_ProbeAddressedToArgument ==
    Done("start") =>
        /\ log[1].addr = call.arg
        /\ call.st[1] = 0 =>
              /\ \A i \in BusOps(log) : log[i].addr = call.arg
              /\ address = call.arg

\* C3: after a start whose probe succeeds and whose status read delivers
\* both bytes, the processor state follows the second byte b alone:
\* status = (b & 0xF0) >> 4, phase = b & 0x0F; status 0 -> 0 (Booting),
\* status 1 and phase 0 -> 1 (IdleReady), status 1 and phase # 0 -> 2
\* (Running), status 14 -> 3 (SelfTest).
C3_StateDerivation ==
    (Done("start") /\ call.st[1] = 0 /\ Len(call.rx[1]) = 2) =>
        LET b == call.rx[1][2]
            status == b \div 16
            phs == b % 16
        IN  /\ status = 0 => processorState = 0
            /\ (status = 1 /\ phs = 0) => processorState = 1
            /\ (status = 1 /\ phs # 0) => processorState = 2
            /\ status = 14 => processorState = 3

C3_Witness ==
    /\ Done("start")
    /\ call.st[1] = 0
    /\ call.rx[1] = <<17, 16>>
    /\ call.pre.processorState = 3
    /\ processorState = 1

\* C4: when the probe succeeds and the status register carries a
\* processing_status other than 0, 1 or 14, the processor state after the
\* call is the one before the call.
C4_UnmappedStatusKeepsState ==
    (Done("start") /\ call.st[1] = 0 /\ Len(call.rx[1]) = 2
       /\ (call.rx[1][2] \div 16) \notin {0, 1, 14}) =>
        processorState = call.pre.processorState

C4_Witness ==
    /\ Done("start")
    /\ call.st[1] = 0
    /\ Len(call.rx[1]) = 2
    /\ call.rx[1][2] = 80
    /\ call.pre.processorState = 2
    /\ processorState = 2

\* C5: setOutputRate issues four bus operations, in this order: the write of
\* (0x80, 0x46) to CTRL, a 150 us wait, the extended write to ORATE (its
\* transaction, its 10 us wait and its one-byte status request), a 50 us
\* wait, the write of (0xC0, 0x46) to CTRL, a 150 us wait; whatever the
\* statuses of the transactions are.
C5_RateSequence ==
    Done("setOutputRate") =>
        /\ Len(log) = 8
        /\ log[1] = [kind |-> "tx", addr |-> address, data |-> <<30, 128, 70>>, arg |-> call.st[1]]
        /\ log[2] = [kind |-> "delayMicroseconds", addr |-> 0, data |-> <<>>, arg |-> 150]
        /\ log[3].kind = "tx" /\ log[3].addr = address /\ log[3].arg = call.st[2]
        /\ Len(log[3].data) = 8
        /\ SubSeq(log[3].data, 1, 3) = <<2, 255, 208>>
        /\ log[3].data[8] = 128
        /\ log[4] = [kind |-> "delayMicroseconds", addr |-> 0, data |-> <<>>, arg |-> 10]
        /\ log[5] = [kind |-> "req", addr |-> address, data |-> <<>>, arg |-> 1]
        /\ log[6] = [kind |-> "delayMicroseconds", addr |-> 0, data |-> <<>>, arg |-> 50]
        /\ log[7] = [kind |-> "tx", addr |-> address, data |-> <<30, 192, 70>>, arg |-> call.st[3]]
        /\ log[8] = [kind |-> "delayMicroseconds", addr |-> 0, data |-> <<>>, arg |-> 150]
        /\ Cardinality(BusOps(log)) = 4

C5_Witness ==
    /\ Done("setOutputRate")
    /\ call.arg = 5
    /\ call.st = <<2, 0, 0>>
    /\ Len(log) = 8
    /\ log[7].data = <<30, 192, 70>>

\* the four data bytes of the extended write of a setOutputRate log
RateData(l) == SubSeq(l[3].data, 4, 7)

\* C6: for every parameter value r >= 8 the log of setOutputRate(r) is the
\* log of setOutputRate(7) under the same transport answers, and the rate
\* byte written is 7; for r in 0..7 the rate byte written is r (the other
\* data bytes are 0).
C6_ClampHigh ==
    Done("setOutputRate") =>
        LET r == call.arg % 256
            d == RateData(log)
            written == d[1] + d[2] + d[3] + d[4]
        IN  /\ \A i \in 1..4 : d[i] \in {0, written}
            /\ r >= 8 =>
                  /\ written = 7
                  /\ log = setOutputRate(call.pre, 7, call.st, call.rx, call.ret).log
            /\ r <= 7 => written = r

C6_Witness ==
    /\ Done("setOutputRate")
    /\ call.arg = 9
    /\ 7 \in {RateData(log)[i] : i \in 1..4}

\* C7 (as claimed): setOutputRate(-1) puts the same bytes on the bus as
\* setOutputRate(0), the rate byte written being 0.
C7_MinusOneIsZero ==
    (Done("setOutputRate") /\ call.arg = -1) =>
        /\ RateData(log) = <<0, 0, 0, 0>>
        /\ log = setOutputRate(call.pre, 0, call.st, call.rx, call.ret).log

\* the rate setOutputRate is meant to write for the parameter value r
Clamped(r) == IF r > 7 THEN 7 ELSE r

\* C8 (as claimed): the clamped rate is the first of the four data bytes of
\* the extended write (the most-significant byte), the other three are 0.
C8_RateInFirstByte ==
    Done("setOutputRate") =>
        RateData(log) = <<Clamped(call.arg % 256), 0, 0, 0>>

\* C8 (amended): the clamped rate is the last of the four data bytes of the
\* extended write (the least-significant byte of the register value), the
\* first three are 0.
C8_RateInLastByte ==
    Done("setOutputRate") =>
        RateData(log) = <<0, 0, 0, Clamped(call.arg % 256)>>

C8_Witness ==
    /\ Done("setOutputRate")
    /\ call.arg = 5
    /\ RateData(log) = <<0, 0, 0, 5>>

\* C9 (as claimed): after a start whose probe succeeds, getOutputRate() is
\* the first data byte received (after the status byte) in the extended read
\* of ORATE, and readOutputRate() returns that byte position.
C9_RateFromFirstByte ==
    /\ (Done("start") /\ call.st[1] = 0 /\ Len(call.rx[2]) = 5) =>
          outputRate = call.rx[2][2]
    /\ (Done("readOutputRate") /\ Len(call.rx[1]) = 5) =>
          call.ret = call.rx[1][2]

\* C9 (amended): after a start whose probe succeeds, getOutputRate() is the
\* last of the four data bytes received after the status byte (the
\* least-significant byte of the register value), and 0 when fewer than five
\* bytes were received; readOutputRate() returns that byte position.
C9_RateFromLastByte ==
    /\ (Done("start") /\ call.st[1] = 0) =>
          outputRate = (IF Len(call.rx[2]) = 5 THEN call.rx[2][5] ELSE 0)
    /\ Done("readOutputRate") =>
          call.ret = (IF Len(call.rx[1]) = 5 THEN call.rx[1][5] ELSE 0)

C9_Witness ==
    /\ Done("start")
    /\ call.st[1] = 0
    /\ call.rx[2] = <<1, 5, 6, 7, 9>>
    /\ call.pre.outputRate = 3
    /\ outputRate = 9

\* C10: for every 16-bit value w of the angle register (first byte the high
\* byte), readAngleRaw returns w & 0x0FFF when the number of set bits of w
\* is odd and 0 when it is even, bit 15 set or not.
C10_AngleParity ==
    (Done("readAngleRaw") /\ Len(call.rx[1]) = 2) =>
        LET w == 256 * call.rx[1][1] + call.rx[1][2]
        IN  call.ret = (IF PopCount(w) % 2 = 1 THEN w % 4096 ELSE 0)

C10_Witness ==
    /\ Done("readAngleRaw")
    /\ call.rx[1] = <<129, 35>>
    /\ call.ret = 291

\* C11 (as claimed): the angle register bytes 0xA0, 0x00 decode to the raw
\* code 0 as a valid reading: readAngleRaw leaves through the return of the
\* masked angle, not through the parity-error return.
C11_ExampleValid ==
    (Done("readAngleRaw") /\ call.rx[1] = <<160, 0>>) =>
        /\ call.ret = 0
        /\ call.path = "angle"

\* C11 (amended): the angle register bytes 0xA0, 0x00 have two set bits
\* (even parity), so readAngleRaw leaves through the parity-error return; the
\* 0 it returns is the error value.
C11_ExampleParityError ==
    (Done("readAngleRaw") /\ call.rx[1] = <<160, 0>>) =>
        /\ call.ret = 0
        /\ call.path = "parityError"

C11_Witness ==
    /\ Done("readAngleRaw")
    /\ call.rx[1] = <<160, 0>>
    /\ call.path = "parityError"
    /\ log[1].data = <<32>>

\* C12: for every 16-bit value w delivered for the temperature (resp. field)
\* register, readTempRaw (resp. readFieldRaw) returns w & 0x0FFF: the top
\* four bits of the first byte are dropped and the parity of w plays no role.
C12_TempFieldMask ==
    ((Done("readTempRaw") \/ Done("readFieldRaw")) /\ Len(call.rx[1]) = 2) =>
        call.ret = (256 * call.rx[1][1] + call.rx[1][2]) % 4096

C12_Witness ==
    /\ Done("readTempRaw")
    /\ call.rx[1] = <<241, 35>>
    /\ call.ret = 291

\* C13 (as claimed): after setOutputRate(r) the cached output rate that
\* getOutputRate() returns is r clamped to at most 7.
C13_SetUpdatesCache ==
    Done("setOutputRate") => outputRate = Clamped(call.arg % 256)

\* C14 (as claimed): in every reachable state the cached output rate is
\* within 0..7 and the cached processor state within 0..4.
C14_RateWithinSeven ==
    /\ outputRate \in 0..7
    /\ processorState \in 0..4

\* C14 (amended): in every reachable state the cached processor state is
\* within 0..4 and the cached output rate is a byte, 0..255: start caches the
\* byte the device delivered without clamping it.
C14_RateIsByte ==
    /\ outputRate \in 0..255
    /\ processorState \in 0..4

C14_Witness ==
    /\ pc = "idle"
    /\ outputRate = 9
    /\ processorState = 2

\* the methods that only read from or write to the sensor
AccessOps == {"readAngle", "readAngleRaw", "readTemp", "readTempRaw", "readField",
              "readFieldRaw", "readOutputRate", "normalRead", "normalWrite",
              "extendedRead", "extendedWrite"}

\* C15: the driver starts as (0x0C, NotFound, 0); a step of a read or
\* register access method (and the return to the sketch) changes none of
\* address, processorState, outputRate; a step of setOutputRate changes
\* neither address nor processorState; a step of start with a failing probe
\* changes neither address nor outputRate.
C15_Frame ==
    /\ address = 12 /\ processorState = 4 /\ outputRate = 0
    /\ [][/\ call'.name \in AccessOps \cup {"none"} =>
                /\ address' = address
                /\ processorState' = processorState
                /\ outputRate' = outputRate
          /\ call'.name = "setOutputRate" =>
                /\ address' = address
                /\ processorState' = processorState
          /\ (call'.name = "start" /\ call'.st[1] # 0) =>
                /\ address' = address
                /\ outputRate' = outputRate]_vars

C15_Witness ==
    /\ Done("readOutputRate")
    /\ call.ret = 9
    /\ call.pre.outputRate = 3
    /\ outputRate = 3
    /\ processorState = 2

\* C16: extendedRead(reg) issues one transaction carrying 0x0A, the high
\* byte of reg, the low byte of reg and 0x80, waits 10 us and requests five
\* bytes; of the five bytes received the first (status) is dropped and the
\* next four fill the result most-significant first: the first data byte is
\* bits 31..24.
C16_ExtendedRead ==
    Done("extendedRead") =>
        LET reg == call.arg % 65536
        IN  /\ log = <<[kind |-> "tx", addr |-> address,
                        data |-> <<10, reg \div 256, reg % 256, 128>>, arg |-> call.st[1]],
                       [kind |-> "delayMicroseconds", addr |-> 0, data |-> <<>>, arg |-> 10],
                       [kind |-> "req", addr |-> address, data |-> <<>>, arg |-> 5]>>
            /\ Len(call.rx[1]) = 5 =>
                  \A k \in 0..3 : (call.ret \div (2 ^ (8 * (3 - k)))) % 256 = call.rx[1][k + 2]

C16_Witness ==
    /\ Done("extendedRead")
    /\ call.arg = 65488
    /\ call.rx[1] = <<0, 129, 2, 3, 4>>
    /\ call.ret = -2130574588
    /\ log[1].data = <<10, 255, 208, 128>>

\* number of bus operations of a method when no early return is taken
BusOpCount(name) ==
    CASE name = "start" -> 5
      [] name = "setOutputRate" -> 4
      [] name = "normalWrite" -> 1
      [] OTHER -> 2

\* transactions of a log that carry the bytes data
TxWith(l, data) == {i \in 1..Len(l) : l[i].kind = "tx" /\ l[i].data = data}

\* setOutputRate issues each of its three steps once, the run-mode write last
ThreeStepsOnce ==
    Done("setOutputRate") =>
        /\ Cardinality(TxWith(log, <<30, 128, 70>>)) = 1
        /\ Cardinality({i \in 1..Len(log) : log[i].kind = "tx" /\ log[i].data[1] = 2}) = 1
        /\ Cardinality(TxWith(log, <<30, 192, 70>>)) = 1
        /\ \A i \in BusOps(log) : i <= CHOOSE j \in TxWith(log, <<30, 192, 70>>) : TRUE

\* C17 (as claimed): whatever the transport results, setOutputRate issues
\* each of its three steps once and reaches the run-mode write, and every
\* public method issues a number of bus operations that does not depend on
\* the results.
C17_FixedBusOps ==
    /\ ThreeStepsOnce
    /\ (pc = "done" /\ call.name \in AccessOps \cup {"start", "setOutputRate"}) =>
          Cardinality(BusOps(log)) = BusOpCount(call.name)

\* C17 (amended): as claimed for setOutputRate and for every public method
\* but start; start issues one bus operation when its probe fails and five
\* when it succeeds.
C17_FixedBusOpsButStart ==
    /\ ThreeStepsOnce
    /\ (pc = "done" /\ call.name \in AccessOps \cup {"setOutputRate"}) =>
          Cardinality(BusOps(log)) = BusOpCount(call.name)
    /\ Done("start") =>
          Cardinality(BusOps(log)) = (IF call.st[1] # 0 THEN 1 ELSE 5)

C17_Witness ==
    /\ Done("setOutputRate")
    /\ call.st = <<2, 2, 2>>
    /\ call.rx = <<<<>>>>
    /\ Len(log) = 8
    /\ log[7].data = <<30, 192, 70>>

\* C18: for N in {2, 4}, a value integ, an index n in 0..255 and j = min(n,
\* N-1): in() after construction is integ; msBy(n) is the byte of bits
\* [8(N-1-j), 8(N-j)) and lsBy(n) the byte of bits [8j, 8(j+1)); msBy(0) is
\* lsBy(N-1); a byte b written through msBy(n) or lsBy(n) is what in() shows
\* in those bits, the other bits being those of integ.
C18_ByteViews ==
    (Done("bytes_2") \/ Done("bytes_4")) =>
        LET N == IF call.name = "bytes_2" THEN 2 ELSE 4
            integ == call.arg[1]
            n == call.arg[2]
            b == call.arg[3]
            j == IF n > N - 1 THEN N - 1 ELSE n
            ByteOf(v, m) == (v \div (2 ^ (8 * m))) % 256
        IN  /\ call.ret.in = integ
            /\ call.ret.ms = ByteOf(integ, N - 1 - j)
            /\ call.ret.ls = ByteOf(integ, j)
            /\ call.ret.msZero = call.ret.lsLast
            /\ \A m \in 0..(N - 1) :
                  /\ ByteOf(call.ret.msIn, m) = (IF m = N - 1 - j THEN b ELSE ByteOf(integ, m))
                  /\ ByteOf(call.ret.lsIn, m) = (IF m = j THEN b ELSE ByteOf(integ, m))

C18_Witness ==
    /\ Done("bytes_4")
    /\ call.arg = <<16909060, 200, 165>>
    /\ call.ret.ms = 4
    /\ call.ret.ls = 1
    /\ call.ret.msIn = 16909221

\* C19: against the device that stores the data bytes of an extended write
\* to ORATE and returns them on an extended read, once setOutputRate has
\* been called, readOutputRate() returns the last rate passed (as a byte)
\* clamped to at most 7, and a successful start caches that value.
C19_RoundTrip ==
    bench.rate # NoRate =>
        /\ Done("readOutputRate") => call.ret = Clamped(bench.rate % 256)
        /\ (Done("start") /\ call.st[1] = 0) => outputRate = Clamped(bench.rate % 256)

C19_Witness ==
    /\ Done("start")
    /\ bench.rate = 9
    /\ bench.orate = <<0, 0, 0, 7>>
    /\ call.pre.outputRate = 4
    /\ outputRate = 7

\* C20: start returns the status of its probe transaction; when the probe
\* succeeds it returns 0 whatever the statuses of the two read transactions
\* and however many bytes the reads deliver, and a byte that was not
\* delivered counts as 0 in the derivation of processorState (second status
\* byte) and outputRate (last data byte).
C20_StartReturn ==
    Done("start") =>
        /\ call.ret = call.st[1]
        /\ call.st[1] = 0 =>
              LET b == IF Len(call.rx[1]) = 2 THEN call.rx[1][2] ELSE 0
                  status == b \div 16
                  phs == b % 16
              IN  /\ call.ret = 0
                  /\ processorState =
                        (CASE status = 0 -> 0
                           [] status = 1 /\ phs = 0 -> 1
                           [] status = 1 /\ phs # 0 -> 2
                           [] status = 14 -> 3
                           [] OTHER -> call.pre.processorState)
                  /\ outputRate = (IF Len(call.rx[2]) = 5 THEN call.rx[2][5] ELSE 0)

C20_Witness ==
    /\ Done("start")
    /\ call.st = <<0, 2, 2>>
    /\ call.rx = <<<<128>>, <<1, 5, 6, 7>>>>
    /\ call.ret = 0
    /\ call.pre.processorState = 2
    /\ call.pre.outputRate = 9
    /\ processorState = 0
    /\ outputRate = 0
====
